---- MODULE Spec2Model ----
(***************************************************************************)
(* Styrene: the path-pattern compiler (pathexp: lexer, parse, flatten,     *)
(* sequenceToRegExp, negate, match, matchInput) and the router that calls  *)
(* it (Server.on, Server.#requestHandle).                                  *)
(*                                                                         *)
(* Strings are sequences of one-character strings.  Indices into a string  *)
(* are 0-based as in the source; Chr reads one.                            *)
(***************************************************************************)
EXTENDS Integers, Sequences, FiniteSets, TLC

VARIABLES
    template,   \* the route template handed to match(path)
    pc,         \* "start" | "compiled" | "error" | "matched" | "serving" | "answered"
    parsed,     \* outcome of parse(template): the node list or the error thrown
    flat,       \* the sequences flatten yielded to match's for-loop
    matcher,    \* the bound matchInput returned by match(path), or the error thrown
    input,      \* the last string handed to the matcher
    result,     \* what that call returned or threw
    handlers,   \* Server.#handlers
    registered, \* how the last call of Server.on ended
    request,    \* the request last handed to #requestHandle
    response,   \* what #requestHandle did for it
    shared,     \* matchers that live on between calls, each with its template
    calls       \* which of them were called so far, in the order of the calls

vars == <<template, pc, parsed, flat, matcher, input, result,
          handlers, registered, request, response, shared, calls>>

(***************************************************************************)
(* Bounds of the model.                                                    *)
(***************************************************************************)
MaxTemplateLen == 4
MaxMatchTemplateLen == 3
MaxInputLen == 3
MaxHandlers == 2
MaxMatchers == 2
MaxCalls == 3

(***************************************************************************)
(* JavaScript values.                                                      *)
(***************************************************************************)
\* chars[i] past the end of the array is undefined; appended to a string it
\* reads "undefined".
undefined == "undefined"

Chr(chars, i) == IF i >= 0 /\ i < Len(chars) THEN chars[i + 1] ELSE undefined

\* Truthiness of a string value (a sequence of characters, or <<undefined>>).
Truthy(v) == v # <<>> /\ v # <<undefined>>

RECURSIVE Includes(_, _)
Includes(str, c) ==
    IF str = <<>> THEN FALSE
    ELSE IF Head(str) = c THEN TRUE ELSE Includes(Tail(str), c)

AllSeqs(S, n) == UNION {[1..k -> S] : k \in 0..n}

(***************************************************************************)
(* lexer                                                                   *)
(***************************************************************************)
Letters == {"a", "b", "c", "d", "e", "f", "i", "l", "r", "s", "t", "x", "A"}
Digits == {"0", "1", "2", "3"}

ID_START(c) == c \in Letters \cup {"$", "_"}

ID_CONTINUE(c) == c \in Letters \cup Digits \cup {"$", "_"}

\* Faulty variant of the table: only the braces are tokens of their own.
SIMPLE_TOKENS_BracesOnly == {"{", "}"}

SIMPLE_TOKENS == {"{", "}", "(", ")", "[", "]", "+", "?", "!"}

NoError == [kind |-> "", found |-> "", expected |-> "", index |-> 0]

Error(kind, found, expected, index) ==
    [kind |-> kind, found |-> found, expected |-> expected, index |-> index]

\* while (ID_CONTINUE.test(chars[++i])) value += chars[i];  (i already advanced)
RECURSIVE nameIdent(_, _, _)
nameIdent(chars, i, value) ==
    IF ID_CONTINUE(Chr(chars, i))
    THEN nameIdent(chars, i + 1, Append(value, Chr(chars, i)))
    ELSE [value |-> value, i |-> i, pos |-> 0]

\* the quoted-name loop of name()
RECURSIVE nameQuoted(_, _, _, _)
nameQuoted(chars, i, value, pos) ==
    IF i < Len(chars)
    THEN IF Chr(chars, i + 1) = "\""
         THEN [value |-> value, i |-> i + 2, pos |-> 0]
         ELSE IF Chr(chars, i + 1) = "\\"
              THEN nameQuoted(chars, i + 2, Append(value, Chr(chars, i + 2)), pos)
              ELSE nameQuoted(chars, i + 1, Append(value, Chr(chars, i + 1)), pos)
    ELSE [value |-> value, i |-> i, pos |-> pos]

\* name(), entered with i at the ':' or '*'
name(chars, i) ==
    LET r == IF ID_START(Chr(chars, i + 1))
             THEN nameIdent(chars, i + 2, <<Chr(chars, i + 1)>>)
             ELSE IF Chr(chars, i + 1) = "\""
                  THEN nameQuoted(chars, i + 1, <<>>, i + 1)
                  ELSE [value |-> <<>>, i |-> i + 1, pos |-> 0]
    IN  IF r.pos # 0
        THEN [threw |-> TRUE, error |-> Error("Unterminated quote", "", "", r.pos),
              value |-> r.value, i |-> r.i]
        ELSE IF r.value = <<>>
             THEN [threw |-> TRUE, error |-> Error("Missing parameter name", "", "", r.i),
                   value |-> r.value, i |-> r.i]
             ELSE [threw |-> FALSE, error |-> NoError, value |-> r.value, i |-> r.i]

Thrown(error) == [type |-> "THROW", index |-> error.index, value |-> <<>>, error |-> error]

Yield(type, index, value) ==
    [type |-> type, index |-> index, value |-> value, error |-> NoError]

\* The generator, run to its end: the tokens it yields, then the END it
\* returns, or, in place of the token whose scan throws, a THROW entry that
\* raises the error when Iter.peek pulls it.
RECURSIVE lexerFrom(_, _, _)
lexerFrom(chars, i, out) ==
    IF ~(i < Len(chars))
    THEN Append(out, Yield("END", i, <<>>))
    ELSE LET value == Chr(chars, i) IN
         IF value \in SIMPLE_TOKENS
         THEN lexerFrom(chars, i + 1, Append(out, Yield(value, i, <<value>>)))
         ELSE IF value = "\\"
         THEN lexerFrom(chars, i + 2, Append(out, Yield("ESCAPED", i, <<Chr(chars, i + 1)>>)))
         ELSE IF value = ":" \/ value = "*"
         THEN LET n == name(chars, i) IN
              IF n.threw
              THEN Append(out, Thrown(n.error))
              ELSE lexerFrom(chars, n.i,
                       Append(out, Yield(IF value = ":" THEN "PARAM" ELSE "WILDCARD",
                                         n.i, n.value)))
         ELSE lexerFrom(chars, i + 1, Append(out, Yield("CHAR", i, <<value>>)))

lexer(str) == lexerFrom(str, 0, <<>>)

(***************************************************************************)
(* Iter and parse.  p is the number of tokens consumed; Iter.peek is the   *)
(* token after them.                                                       *)
(***************************************************************************)
peek(toks, p) == toks[p + 1]

\* Iter.text: tryConsume("CHAR") || tryConsume("ESCAPED") until it is falsy.
\* A CHAR token always carries a character.  An ESCAPED token whose value is
\* undefined is consumed by tryConsume and ends the run.
RECURSIVE text(_, _, _)
text(toks, p, acc) ==
    LET token == peek(toks, p) IN
    IF token.type = "THROW"
    THEN [threw |-> TRUE, error |-> token.error, p |-> p, result |-> acc]
    ELSE IF token.type = "CHAR"
    THEN text(toks, p + 1, acc \o token.value)
    ELSE IF token.type = "ESCAPED" /\ Truthy(token.value)
    THEN text(toks, p + 1, acc \o token.value)
    ELSE IF token.type = "ESCAPED"
    THEN [threw |-> FALSE, error |-> NoError, p |-> p + 1, result |-> acc]
    ELSE [threw |-> FALSE, error |-> NoError, p |-> p, result |-> acc]

TextNode(value) == [type |-> "text", value |-> value, name |-> <<>>, tokens |-> <<>>]
ParamNode(n) == [type |-> "param", value |-> <<>>, name |-> n, tokens |-> <<>>]
WildcardNode(n) == [type |-> "wildcard", value |-> <<>>, name |-> n, tokens |-> <<>>]
GroupNode(ts) == [type |-> "group", value |-> <<>>, name |-> <<>>, tokens |-> ts]

ParseThrew(error, p) == [threw |-> TRUE, error |-> error, tokens |-> <<>>, p |-> p]

\* Faulty variant of consume: the end of the template closes the groups that
\* are still open.
RECURSIVE consumeClosingAtEnd(_, _, _, _)
consumeClosingAtEnd(toks, p, endType, tokens) ==
    LET path == text(toks, p, <<>>) IN
    IF path.threw THEN ParseThrew(path.error, path.p)
    ELSE
    LET tokens1 == IF path.result # <<>>
                   THEN Append(tokens, TextNode(path.result)) ELSE tokens
        token == peek(toks, path.p)
    IN  IF token.type = "THROW" THEN ParseThrew(token.error, path.p)
        ELSE IF token.type = "PARAM" /\ Truthy(token.value)
        THEN consumeClosingAtEnd(toks, path.p + 1, endType, Append(tokens1, ParamNode(token.value)))
        ELSE IF token.type = "WILDCARD" /\ Truthy(token.value)
        THEN consumeClosingAtEnd(toks, path.p + 1, endType, Append(tokens1, WildcardNode(token.value)))
        ELSE IF token.type = "{"
        THEN LET group == consumeClosingAtEnd(toks, path.p + 1, "}", <<>>) IN
             IF group.threw THEN group
             ELSE consumeClosingAtEnd(toks, group.p, endType, Append(tokens1, GroupNode(group.tokens)))
        ELSE IF token.type = endType
        THEN [threw |-> FALSE, error |-> NoError, tokens |-> tokens1, p |-> path.p + 1]
        ELSE IF token.type = "END"
        THEN [threw |-> FALSE, error |-> NoError, tokens |-> tokens1, p |-> path.p]
        ELSE ParseThrew(Error("Unexpected", token.type, endType, token.index), path.p)

\* parse's inner consume(endType): one pass of the while (true) loop per call.
RECURSIVE consume(_, _, _, _)
consume(toks, p, endType, tokens) ==
    LET path == text(toks, p, <<>>) IN
    IF path.threw THEN ParseThrew(path.error, path.p)
    ELSE
    LET tokens1 == IF path.result # <<>>
                   THEN Append(tokens, TextNode(path.result)) ELSE tokens
        token == peek(toks, path.p)
    IN  IF token.type = "THROW" THEN ParseThrew(token.error, path.p)
        ELSE IF token.type = "PARAM" /\ Truthy(token.value)
        THEN consume(toks, path.p + 1, endType, Append(tokens1, ParamNode(token.value)))
        ELSE IF token.type = "WILDCARD" /\ Truthy(token.value)
        THEN consume(toks, path.p + 1, endType, Append(tokens1, WildcardNode(token.value)))
        ELSE IF token.type = "{"
        THEN LET group == consume(toks, path.p + 1, "}", <<>>) IN
             IF group.threw THEN group
             ELSE consume(toks, group.p, endType, Append(tokens1, GroupNode(group.tokens)))
        ELSE IF token.type = endType
        THEN [threw |-> FALSE, error |-> NoError, tokens |-> tokens1, p |-> path.p + 1]
        ELSE ParseThrew(Error("Unexpected", token.type, endType, token.index), path.p)

parse(str) == consume(lexer(str), 0, "END", <<>>)

(***************************************************************************)
(* flatten.  Every array the generator yields is read by its consumer      *)
(* (line 156, line 223) before the generator runs again, and the array a   *)
(* frame pushes to is never the one an earlier branch was given (the       *)
(* include branch works on fork = init.slice()), so the arrays are values. *)
(***************************************************************************)
\* Faulty variant of flatten: the alternatives that omit a group are yielded
\* before those that include it.
RECURSIVE flattenOmitFirst(_, _, _), flattenOmitFirstEach(_, _, _, _)
flattenOmitFirst(tokens, index, init) ==
    IF index = Len(tokens)
    THEN <<init>>
    ELSE LET token == tokens[index + 1] IN
         IF token.type = "group"
         THEN flattenOmitFirst(tokens, index + 1, init)
                  \o flattenOmitFirstEach(flattenOmitFirst(token.tokens, 0, init), 1,
                                          tokens, index)
         ELSE flattenOmitFirst(tokens, index + 1, Append(init, token))

flattenOmitFirstEach(seqs, k, tokens, index) ==
    IF k > Len(seqs)
    THEN <<>>
    ELSE flattenOmitFirst(tokens, index + 1, seqs[k])
             \o flattenOmitFirstEach(seqs, k + 1, tokens, index)

\* Faulty variant of flatten: the alternatives that include a group are
\* yielded twice.
RECURSIVE flattenIncludeTwice(_, _, _), flattenIncludeTwiceEach(_, _, _, _)
flattenIncludeTwice(tokens, index, init) ==
    IF index = Len(tokens)
    THEN <<init>>
    ELSE LET token == tokens[index + 1] IN
         IF token.type = "group"
         THEN flattenIncludeTwiceEach(flattenIncludeTwice(token.tokens, 0, init), 1,
                                      tokens, index)
                  \o flattenIncludeTwiceEach(flattenIncludeTwice(token.tokens, 0, init), 1,
                                             tokens, index)
                  \o flattenIncludeTwice(tokens, index + 1, init)
         ELSE flattenIncludeTwice(tokens, index + 1, Append(init, token))

flattenIncludeTwiceEach(seqs, k, tokens, index) ==
    IF k > Len(seqs)
    THEN <<>>
    ELSE flattenIncludeTwice(tokens, index + 1, seqs[k])
             \o flattenIncludeTwiceEach(seqs, k + 1, tokens, index)

RECURSIVE flatten(_, _, _), flattenEach(_, _, _, _)
flatten(tokens, index, init) ==
    IF index = Len(tokens)
    THEN <<init>>
    ELSE LET token == tokens[index + 1] IN
         IF token.type = "group"
         THEN flattenEach(flatten(token.tokens, 0, init), 1, tokens, index)
                  \o flatten(tokens, index + 1, init)
         ELSE flatten(tokens, index + 1, Append(init, token))

\* for (const seq of flatten(token.tokens, 0, fork)) yield* flatten(tokens, index + 1, seq)
flattenEach(seqs, k, tokens, index) ==
    IF k > Len(seqs)
    THEN <<>>
    ELSE flatten(tokens, index + 1, seqs[k]) \o flattenEach(seqs, k + 1, tokens, index)

(***************************************************************************)
(* escape, negate, sequenceToRegExp: the pattern source, as text.          *)
(***************************************************************************)
\* Faulty variant of the escaped set: the star is left as it is.
EscapedCharsWithoutStar ==
    {".", "+", "?", "^", "$", "{", "}", "(", ")", "[", "]", "|", "/", "\\"}

EscapedChars == {".", "+", "*", "?", "^", "$", "{", "}", "(", ")", "[", "]", "|", "/", "\\"}

RECURSIVE escape(_)
escape(str) ==
    IF str = <<>> THEN <<>>
    ELSE (IF Head(str) \in EscapedChars THEN <<"\\", Head(str)>> ELSE <<Head(str)>>)
             \o escape(Tail(str))

\* Faulty variant of negate: the fragment that excludes the backtrack text is
\* wrapped in a capturing group.
negateCapturing(delimiter, backtrack) ==
    IF Len(backtrack) < 2
    THEN IF Len(delimiter) < 2
         THEN <<"[", "^">> \o escape(delimiter \o backtrack) \o <<"]">>
         ELSE <<"(", "?", ":", "(", "?", "!">> \o escape(delimiter) \o <<")", "[", "^">>
                  \o escape(backtrack) \o <<"]", ")">>
    ELSE IF Len(delimiter) < 2
         THEN <<"(", "(", "?", "!">> \o escape(backtrack) \o <<")", "[", "^">>
                  \o escape(delimiter) \o <<"]", ")">>
         ELSE <<"(", "(", "?", "!">> \o escape(backtrack) \o <<"|">>
                  \o escape(delimiter) \o <<")", "[", "\\", "s", "\\", "S", "]", ")">>

negate(delimiter, backtrack) ==
    IF Len(backtrack) < 2
    THEN IF Len(delimiter) < 2
         THEN <<"[", "^">> \o escape(delimiter \o backtrack) \o <<"]">>
         ELSE <<"(", "?", ":", "(", "?", "!">> \o escape(delimiter) \o <<")", "[", "^">>
                  \o escape(backtrack) \o <<"]", ")">>
    ELSE IF Len(delimiter) < 2
         THEN <<"(", "?", ":", "(", "?", "!">> \o escape(backtrack) \o <<")", "[", "^">>
                  \o escape(delimiter) \o <<"]", ")">>
         ELSE <<"(", "?", ":", "(", "?", "!">> \o escape(backtrack) \o <<"|">>
                  \o escape(delimiter) \o <<")", "[", "\\", "s", "\\", "S", "]", ")">>

\* Faulty variant of the loop: a capture leaves isSafeSegmentParam as it is.
RECURSIVE sequenceLoopStaysSafe(_, _, _, _, _, _)
sequenceLoopStaysSafe(tokens, i, res, backtrack, isSafeSegmentParam, keys) ==
    IF ~(i < Len(tokens))
    THEN [threw |-> FALSE, error |-> NoError, result |-> res, keys |-> keys]
    ELSE LET token == tokens[i + 1] IN
         IF token.type = "text"
         THEN sequenceLoopStaysSafe(tokens, i + 1, res \o escape(token.value),
                           backtrack \o token.value,
                           isSafeSegmentParam \/ Includes(token.value, "/"), keys)
         ELSE IF token.type = "param" \/ token.type = "wildcard"
         THEN IF ~isSafeSegmentParam /\ backtrack = <<>>
              THEN [threw |-> TRUE, error |-> Error("Missing text after", "", "", i),
                    result |-> res, keys |-> keys]
              ELSE sequenceLoopStaysSafe(tokens, i + 1,
                       IF token.type = "param"
                       THEN res \o <<"(">>
                                \o negate(<<"/">>, IF isSafeSegmentParam THEN <<>> ELSE backtrack)
                                \o <<"+", ")">>
                       ELSE res \o <<"(", "[", "\\", "s", "\\", "S", "]", "+", ")">>,
                       <<>>, isSafeSegmentParam, Append(keys, token))
         ELSE sequenceLoopStaysSafe(tokens, i + 1, res, backtrack, isSafeSegmentParam, keys)

\* Faulty variant of the loop: a capture leaves backtrack as it is.
RECURSIVE sequenceLoopKeepsBacktrack(_, _, _, _, _, _)
sequenceLoopKeepsBacktrack(tokens, i, res, backtrack, isSafeSegmentParam, keys) ==
    IF ~(i < Len(tokens))
    THEN [threw |-> FALSE, error |-> NoError, result |-> res, keys |-> keys]
    ELSE LET token == tokens[i + 1] IN
         IF token.type = "text"
         THEN sequenceLoopKeepsBacktrack(tokens, i + 1, res \o escape(token.value),
                           backtrack \o token.value,
                           isSafeSegmentParam \/ Includes(token.value, "/"), keys)
         ELSE IF token.type = "param" \/ token.type = "wildcard"
         THEN IF ~isSafeSegmentParam /\ backtrack = <<>>
              THEN [threw |-> TRUE, error |-> Error("Missing text after", "", "", i),
                    result |-> res, keys |-> keys]
              ELSE sequenceLoopKeepsBacktrack(tokens, i + 1,
                       IF token.type = "param"
                       THEN res \o <<"(">>
                                \o negate(<<"/">>, IF isSafeSegmentParam THEN <<>> ELSE backtrack)
                                \o <<"+", ")">>
                       ELSE res \o <<"(", "[", "\\", "s", "\\", "S", "]", "+", ")">>,
                       backtrack, FALSE, Append(keys, token))
         ELSE sequenceLoopKeepsBacktrack(tokens, i + 1, res, backtrack, isSafeSegmentParam, keys)

\* the for-loop of sequenceToRegExp from index i on
RECURSIVE sequenceLoop(_, _, _, _, _, _)
sequenceLoop(tokens, i, res, backtrack, isSafeSegmentParam, keys) ==
    IF ~(i < Len(tokens))
    THEN [threw |-> FALSE, error |-> NoError, result |-> res, keys |-> keys]
    ELSE LET token == tokens[i + 1] IN
         IF token.type = "text"
         THEN sequenceLoop(tokens, i + 1, res \o escape(token.value),
                           backtrack \o token.value,
                           isSafeSegmentParam \/ Includes(token.value, "/"), keys)
         ELSE IF token.type = "param" \/ token.type = "wildcard"
         THEN IF ~isSafeSegmentParam /\ backtrack = <<>>
              THEN [threw |-> TRUE, error |-> Error("Missing text after", "", "", i),
                    result |-> res, keys |-> keys]
              ELSE sequenceLoop(tokens, i + 1,
                       IF token.type = "param"
                       THEN res \o <<"(">>
                                \o negate(<<"/">>, IF isSafeSegmentParam THEN <<>> ELSE backtrack)
                                \o <<"+", ")">>
                       ELSE res \o <<"(", "[", "\\", "s", "\\", "S", "]", "+", ")">>,
                       <<>>, FALSE, Append(keys, token))
         ELSE sequenceLoop(tokens, i + 1, res, backtrack, isSafeSegmentParam, keys)

sequenceToRegExp(tokens, keys) == sequenceLoop(tokens, 0, <<>>, <<>>, TRUE, keys)

(***************************************************************************)
(* new RegExp(source, "i"): the subset of the pattern grammar that the     *)
(* sources built above can contain.  A pattern is a tree of nodes          *)
(*   char c | any | class neg items | bol | eol | seq xs | alt xs |        *)
(*   group idx x (idx = 0: non-capturing) | nla x | plus x | star x | opt x*)
(* Positions k into the source are 1-based; n counts the capturing groups  *)
(* opened so far.                                                          *)
(***************************************************************************)
ReFail(k) == [ok |-> FALSE, node |-> [t |-> "fail"], k |-> k, n |-> 0]
ReOk(node, k, n) == [ok |-> TRUE, node |-> node, k |-> k, n |-> n]

At(src, k) == IF k >= 1 /\ k <= Len(src) THEN src[k] ELSE undefined

\* the members of a character class, up to the closing bracket
RECURSIVE reClassItems(_, _, _)
reClassItems(src, k, items) ==
    IF k > Len(src) THEN [ok |-> FALSE, items |-> items, k |-> k]
    ELSE IF src[k] = "]" THEN [ok |-> TRUE, items |-> items, k |-> k + 1]
    ELSE IF src[k] = "\\"
    THEN IF k + 1 > Len(src) THEN [ok |-> FALSE, items |-> items, k |-> k]
         ELSE reClassItems(src, k + 2,
                  Append(items, [esc |-> src[k + 1] \in {"s", "S"}, c |-> src[k + 1]]))
    ELSE reClassItems(src, k + 1, Append(items, [esc |-> FALSE, c |-> src[k]]))

RECURSIVE reDisjunction(_, _, _), reAlternative(_, _, _, _), reAtom(_, _, _)

reQuantified(src, a) ==
    IF ~a.ok THEN a
    ELSE IF At(src, a.k) = "+" THEN ReOk([t |-> "plus", x |-> a.node], a.k + 1, a.n)
    ELSE IF At(src, a.k) = "*" THEN ReOk([t |-> "star", x |-> a.node], a.k + 1, a.n)
    ELSE IF At(src, a.k) = "?" THEN ReOk([t |-> "opt", x |-> a.node], a.k + 1, a.n)
    ELSE a

reClose(src, d, node) ==
    IF ~d.ok THEN d
    ELSE IF At(src, d.k) = ")" THEN ReOk(node, d.k + 1, d.n)
    ELSE ReFail(d.k)

reAtom(src, k, n) ==
    LET c == src[k] IN
    IF c = "^" THEN ReOk([t |-> "bol"], k + 1, n)
    ELSE IF c = "$" THEN ReOk([t |-> "eol"], k + 1, n)
    ELSE IF c = "." THEN ReOk([t |-> "any"], k + 1, n)
    ELSE IF c \in {"*", "+", "?"} THEN ReFail(k)
    ELSE IF c = "\\"
    THEN IF k + 1 > Len(src) THEN ReFail(k)
         ELSE IF src[k + 1] \in {"s", "S"}
         THEN ReOk([t |-> "class", neg |-> FALSE,
                    items |-> <<[esc |-> TRUE, c |-> src[k + 1]]>>], k + 2, n)
         ELSE ReOk([t |-> "char", c |-> src[k + 1]], k + 2, n)
    ELSE IF c = "["
    THEN LET neg == At(src, k + 1) = "^"
             cls == reClassItems(src, IF neg THEN k + 2 ELSE k + 1, <<>>)
         IN  IF cls.ok
             THEN ReOk([t |-> "class", neg |-> neg, items |-> cls.items], cls.k, n)
             ELSE ReFail(cls.k)
    ELSE IF c = "("
    THEN IF At(src, k + 1) = "?"
         THEN IF At(src, k + 2) = ":"
              THEN LET d == reDisjunction(src, k + 3, n) IN
                   reClose(src, d, [t |-> "group", idx |-> 0, x |-> d.node])
              ELSE IF At(src, k + 2) = "!"
              THEN LET d == reDisjunction(src, k + 3, n) IN
                   reClose(src, d, [t |-> "nla", x |-> d.node])
              ELSE ReFail(k)
         ELSE LET d == reDisjunction(src, k + 1, n + 1) IN
              reClose(src, d, [t |-> "group", idx |-> n + 1, x |-> d.node])
    ELSE ReOk([t |-> "char", c |-> c], k + 1, n)

reAlternative(src, k, n, xs) ==
    IF k > Len(src) \/ At(src, k) \in {"|", ")"}
    THEN ReOk([t |-> "seq", xs |-> xs], k, n)
    ELSE LET term == reQuantified(src, reAtom(src, k, n)) IN
         IF term.ok THEN reAlternative(src, term.k, term.n, Append(xs, term.node))
         ELSE term

reDisjunction(src, k, n) ==
    LET a == reAlternative(src, k, n, <<>>) IN
    IF ~a.ok THEN a
    ELSE IF At(src, a.k) = "|"
    THEN LET rest == reDisjunction(src, a.k + 1, a.n) IN
         IF rest.ok
         THEN ReOk([t |-> "alt", xs |-> <<a.node>> \o rest.node.xs], rest.k, rest.n)
         ELSE rest
    ELSE ReOk([t |-> "alt", xs |-> <<a.node>>], a.k, a.n)

\* new RegExp(source, flags): the tree and the number of capturing groups, or
\* a SyntaxError.  lastIndex is the one property of the object that exec may
\* write.
RegExp(source, flags) ==
    LET d == reDisjunction(source, 1, 0) IN
    IF d.ok /\ d.k > Len(source)
    THEN [threw |-> FALSE, source |-> source, node |-> d.node, groups |-> d.n,
          flags |-> flags, lastIndex |-> 0]
    ELSE [threw |-> TRUE, source |-> source, node |-> [t |-> "fail"], groups |-> 0,
          flags |-> flags, lastIndex |-> 0]

(***************************************************************************)
(* RegExp.prototype.exec under the "i" flag: backtracking as the ordered   *)
(* list of the states (pos, caps) a node can leave the match in, most      *)
(* preferred first.  pos counts the characters consumed; caps[i] is the    *)
(* text of capturing group i or <<undefined>>.  (No quantified node of     *)
(* these patterns holds a capturing group, so the per-iteration reset of   *)
(* captures has nothing to reset.)                                         *)
(***************************************************************************)
\* Canonicalize of the "i" flag, over the letters the model has in both cases
Canonicalize(c) == IF c = "a" THEN "A" ELSE c

WhiteSpace == {" ", "\t", "\n", "\r"}

ClassHas(items, c) ==
    \E j \in 1..Len(items) :
        IF items[j].esc
        THEN (items[j].c = "s") = (c \in WhiteSpace)
        ELSE Canonicalize(items[j].c) = Canonicalize(c)

MState(pos, caps) == [pos |-> pos, caps |-> caps]

RECURSIVE Capture(_, _, _, _, _)
Capture(rs, j, idx, s, pos) ==
    IF j > Len(rs) THEN <<>>
    ELSE <<MState(rs[j].pos,
                  [rs[j].caps EXCEPT ![idx] = SubSeq(s, pos + 1, rs[j].pos)])>>
             \o Capture(rs, j + 1, idx, s, pos)

RECURSIVE Matches(_, _, _, _), MatchSeq(_, _, _, _, _), MatchSeqEach(_, _, _, _, _),
          MatchAlt(_, _, _, _, _), MatchPlus(_, _, _, _), MatchPlusEach(_, _, _, _, _)

Matches(node, s, pos, caps) ==
    IF node.t = "char"
    THEN IF pos < Len(s) /\ Canonicalize(s[pos + 1]) = Canonicalize(node.c)
         THEN <<MState(pos + 1, caps)>> ELSE <<>>
    ELSE IF node.t = "any"
    THEN IF pos < Len(s) /\ s[pos + 1] \notin {"\n", "\r"}
         THEN <<MState(pos + 1, caps)>> ELSE <<>>
    ELSE IF node.t = "class"
    THEN IF pos < Len(s) /\ (ClassHas(node.items, s[pos + 1]) # node.neg)
         THEN <<MState(pos + 1, caps)>> ELSE <<>>
    ELSE IF node.t = "bol"
    THEN IF pos = 0 THEN <<MState(pos, caps)>> ELSE <<>>
    ELSE IF node.t = "eol"
    THEN IF pos = Len(s) THEN <<MState(pos, caps)>> ELSE <<>>
    ELSE IF node.t = "seq" THEN MatchSeq(node.xs, 1, s, pos, caps)
    ELSE IF node.t = "alt" THEN MatchAlt(node.xs, 1, s, pos, caps)
    ELSE IF node.t = "group"
    THEN IF node.idx = 0 THEN Matches(node.x, s, pos, caps)
         ELSE Capture(Matches(node.x, s, pos, caps), 1, node.idx, s, pos)
    ELSE IF node.t = "nla"
    THEN IF Len(Matches(node.x, s, pos, caps)) = 0 THEN <<MState(pos, caps)>> ELSE <<>>
    ELSE IF node.t = "plus" THEN MatchPlus(node.x, s, pos, caps)
    ELSE IF node.t = "star" THEN MatchPlus(node.x, s, pos, caps) \o <<MState(pos, caps)>>
    ELSE IF node.t = "opt" THEN Matches(node.x, s, pos, caps) \o <<MState(pos, caps)>>
    ELSE <<>>

MatchSeq(xs, k, s, pos, caps) ==
    IF k > Len(xs) THEN <<MState(pos, caps)>>
    ELSE MatchSeqEach(Matches(xs[k], s, pos, caps), 1, xs, k, s)

MatchSeqEach(rs, j, xs, k, s) ==
    IF j > Len(rs) THEN <<>>
    ELSE MatchSeq(xs, k + 1, s, rs[j].pos, rs[j].caps) \o MatchSeqEach(rs, j + 1, xs, k, s)

\* Faulty variant of MatchAlt: the last alternative is preferred.
RECURSIVE MatchAltLastFirst(_, _, _, _, _)
MatchAltLastFirst(xs, k, s, pos, caps) ==
    IF k > Len(xs) THEN <<>>
    ELSE MatchAltLastFirst(xs, k + 1, s, pos, caps) \o Matches(xs[k], s, pos, caps)

MatchAlt(xs, k, s, pos, caps) ==
    IF k > Len(xs) THEN <<>>
    ELSE Matches(xs[k], s, pos, caps) \o MatchAlt(xs, k + 1, s, pos, caps)

\* greedy: one more iteration is tried before stopping here
MatchPlus(x, s, pos, caps) == MatchPlusEach(Matches(x, s, pos, caps), 1, x, s, pos)

MatchPlusEach(rs, j, x, s, pos) ==
    IF j > Len(rs) THEN <<>>
    ELSE (IF rs[j].pos > pos THEN MatchPlus(x, s, rs[j].pos, rs[j].caps) ELSE <<>>)
             \o <<rs[j]>> \o MatchPlusEach(rs, j + 1, x, s, pos)

\* regexp.exec(input): the first start index with a match, searched from 0,
\* or from lastIndex under the g flag; under the g flag exec leaves in
\* lastIndex the end of the match, or 0 when there is none.  (No pattern of
\* the model has the y flag.)
\* m[1] is the source's m[0]; m[i + 1] is capturing group i.
RECURSIVE execFrom(_, _, _)

\* rs: the ways the pattern matches at start, the preferred one first
execAt(regexp, s, start, rs) ==
    IF Len(rs) > 0
    THEN [matched |-> TRUE, m |-> <<SubSeq(s, start + 1, rs[1].pos)>> \o rs[1].caps,
          lastIndex |-> IF "g" \in regexp.flags THEN rs[1].pos ELSE regexp.lastIndex]
    ELSE execFrom(regexp, s, start + 1)

execFrom(regexp, s, start) ==
    IF start > Len(s)
    THEN [matched |-> FALSE, m |-> <<>>,
          lastIndex |-> IF "g" \in regexp.flags THEN 0 ELSE regexp.lastIndex]
    ELSE execAt(regexp, s, start,
                Matches(regexp.node, s, start, [i \in 1..regexp.groups |-> <<undefined>>]))

exec(regexp, s) ==
    execFrom(regexp, s, IF "g" \in regexp.flags THEN regexp.lastIndex ELSE 0)

(***************************************************************************)
(* decodeURIComponent and String.prototype.split, on the characters the    *)
(* model's inputs are written in.                                          *)
(***************************************************************************)
HexDigits == {"0", "1", "2", "3", "5", "a", "b", "c", "d", "e", "f", "A"}

HexVal(c) ==
    CASE c = "0" -> 0 [] c = "1" -> 1 [] c = "2" -> 2 [] c = "3" -> 3 [] c = "5" -> 5
      [] c = "a" -> 10 [] c = "A" -> 10 [] c = "b" -> 11 [] c = "c" -> 12
      [] c = "d" -> 13 [] c = "e" -> 14 [] c = "f" -> 15

\* String.fromCharCode, for the octets below 0x80 that the inputs of the model
\* spell ("%22", "%25", "%2a", "%2A"); evaluation stops on any other.
FromCharCode(b) == CASE b = 34 -> "\"" [] b = 37 -> "%" [] b = 42 -> "*"

\* An octet of 0x80..0xBF cannot start a UTF-8 sequence: URIError.  No input
\* of the model spells an octet of 0xC0 or more (evaluation stops on one).
RECURSIVE decodeFrom(_, _, _)
decodeFrom(str, k, out) ==
    IF k > Len(str) THEN [threw |-> FALSE, value |-> out]
    ELSE IF str[k] # "%" THEN decodeFrom(str, k + 1, Append(out, str[k]))
    ELSE IF k + 2 > Len(str) \/ str[k + 1] \notin HexDigits \/ str[k + 2] \notin HexDigits
    THEN [threw |-> TRUE, value |-> <<>>]
    ELSE LET b == 16 * HexVal(str[k + 1]) + HexVal(str[k + 2]) IN
         CASE b < 128 -> decodeFrom(str, k + 3, Append(out, FromCharCode(b)))
           [] b >= 128 /\ b < 192 -> [threw |-> TRUE, value |-> <<>>]

decodeURIComponent(str) == decodeFrom(str, 1, <<>>)

\* value.split("/")
RECURSIVE splitFrom(_, _, _, _)
splitFrom(str, k, piece, out) ==
    IF k > Len(str) THEN Append(out, piece)
    ELSE IF str[k] = "/" THEN splitFrom(str, k + 1, <<>>, Append(out, piece))
    ELSE splitFrom(str, k + 1, Append(piece, str[k]), out)

split(str) == splitFrom(str, 1, <<>>, <<>>)

\* value.split("/").map(decodeURIComponent)
RECURSIVE mapDecode(_, _, _)
mapDecode(pieces, k, out) ==
    IF k > Len(pieces) THEN [threw |-> FALSE, value |-> out]
    ELSE LET d == decodeURIComponent(pieces[k]) IN
         IF d.threw THEN [threw |-> TRUE, value |-> <<>>]
         ELSE mapDecode(pieces, k + 1, Append(out, d.value))

\* The two decoders match() builds: decodeURIComponent for a param, whose
\* value is one string, and split-and-decode for a wildcard, whose value is a
\* list of strings: [list, v] with v the string(s).
decoder(fn, value) ==
    IF fn = "decodeURIComponent"
    THEN LET d == decodeURIComponent(value) IN
         [threw |-> d.threw, value |-> [list |-> FALSE, v |-> <<d.value>>]]
    ELSE LET d == mapDecode(split(value), 1, <<>>) IN
         [threw |-> d.threw, value |-> [list |-> TRUE, v |-> d.value]]

(***************************************************************************)
(* match(path) and the matchInput it binds.                                *)
(***************************************************************************)
EmptyParams == [nm \in {} |-> [list |-> FALSE, v |-> <<>>]]

NoMatch == [kind |-> "false", path |-> <<>>, params |-> EmptyParams]
Threw(kind) == [kind |-> kind, path |-> <<>>, params |-> EmptyParams]

\* Faulty variant of paramsLoop: a group that did not participate is not
\* skipped and its key is stored with an empty value.
RECURSIVE paramsLoopKeepsUndefined(_, _, _, _)
paramsLoopKeepsUndefined(this, m, i, params) ==
    IF ~(i < Len(m)) THEN [kind |-> "match", path |-> m[1], params |-> params]
    ELSE IF i > Len(this.keys) THEN Threw("TypeError")
    ELSE LET key == this.keys[i]
             d == IF m[i + 1] = <<undefined>>
                  THEN [threw |-> FALSE, value |-> [list |-> FALSE, v |-> <<>>]]
                  ELSE decoder(this.decoders[i], m[i + 1])
         IN  IF d.threw THEN Threw("URIError")
             ELSE paramsLoopKeepsUndefined(this, m, i + 1,
                      [nm \in DOMAIN params \cup {key.name} |->
                          IF nm = key.name THEN d.value ELSE params[nm]])

\* the for-loop of matchInput over m[i], i = 1 .. m.length - 1
RECURSIVE paramsLoop(_, _, _, _)
paramsLoop(this, m, i, params) ==
    IF ~(i < Len(m)) THEN [kind |-> "match", path |-> m[1], params |-> params]
    ELSE IF m[i + 1] = <<undefined>> THEN paramsLoop(this, m, i + 1, params)
    ELSE IF i > Len(this.keys) THEN Threw("TypeError")
    ELSE LET key == this.keys[i]
             d == decoder(this.decoders[i], m[i + 1])
         IN  IF d.threw THEN Threw("URIError")
             ELSE paramsLoop(this, m, i + 1,
                      [nm \in DOMAIN params \cup {key.name} |->
                          IF nm = key.name THEN d.value ELSE params[nm]])

\* matchInput from line 207 on: m is what this.regexp.exec(input) returned
paramsOf(this, m) ==
    IF ~m.matched THEN NoMatch ELSE paramsLoop(this, m.m, 1, EmptyParams)

matchInput(this, str) == paramsOf(this, exec(this.regexp, str))

\* sources.join("|")
RECURSIVE join(_, _)
join(sources, k) ==
    IF k > Len(sources) THEN <<>>
    ELSE (IF k > 1 THEN <<"|">> ELSE <<>>) \o sources[k] \o join(sources, k + 1)

\* for (const seq of flatten(...)) sources.push(sequenceToRegExp(seq, keys))
RECURSIVE sourcesLoop(_, _, _, _)
sourcesLoop(seqs, k, sources, keys) ==
    IF k > Len(seqs)
    THEN [threw |-> FALSE, error |-> NoError, sources |-> sources, keys |-> keys]
    ELSE LET r == sequenceToRegExp(seqs[k], keys) IN
         IF r.threw
         THEN [threw |-> TRUE, error |-> r.error, sources |-> sources, keys |-> keys]
         ELSE sourcesLoop(seqs, k + 1, Append(sources, r.result), r.keys)

NoRegExp ==
    [threw |-> TRUE, source |-> <<>>, node |-> [t |-> "fail"], groups |-> 0,
     flags |-> {}, lastIndex |-> 0]

CompileThrew(error) ==
    [threw |-> TRUE, error |-> error, keys |-> <<>>, regexp |-> NoRegExp, decoders |-> <<>>]

\* Faulty variant of decodersOf: every key, wildcards too, gets the decoder
\* of a param.
decodersOfParamsOnly(keys) == [i \in 1..Len(keys) |-> "decodeURIComponent"]

\* keys.map((key) => ...)
decodersOf(keys) ==
    [i \in 1..Len(keys) |->
        IF keys[i].type = "param" THEN "decodeURIComponent" ELSE "splitDecode"]

\* return matchInput.bind({keys, regexp, decoders}), or the SyntaxError of
\* new RegExp
matcherOf(keys, regexp) ==
    IF regexp.threw THEN CompileThrew(Error("SyntaxError", "", "", 0))
    ELSE [threw |-> FALSE, error |-> NoError, keys |-> keys, regexp |-> regexp,
          decoders |-> decodersOf(keys)]

\* Faulty variant of matchSources: the pattern ends at the alternation, with
\* no optional trailing delimiter.
matchSourcesStrictEnd(r) ==
    IF r.threw THEN CompileThrew(r.error)
    ELSE matcherOf(r.keys,
                   RegExp(<<"^", "(", "?", ":">> \o join(r.sources, 1) \o <<")", "$">>,
                          {"i"}))

\* Faulty variant of matchSources: the pattern is given the g flag as well.
matchSourcesGlobal(r) ==
    IF r.threw THEN CompileThrew(r.error)
    ELSE matcherOf(r.keys,
                   RegExp(<<"^", "(", "?", ":">> \o join(r.sources, 1)
                          \o <<")", "(", "?", ":">> \o escape(<<"/">>)
                          \o <<"$", ")", "?", "$">>,
                          {"g", "i"}))

\* match from line 224 on: r is what the loop over flatten left or threw
matchSources(r) ==
    IF r.threw THEN CompileThrew(r.error)
    ELSE matcherOf(r.keys,
                   RegExp(<<"^", "(", "?", ":">> \o join(r.sources, 1)
                          \o <<")", "(", "?", ":">> \o escape(<<"/">>)
                          \o <<"$", ")", "?", "$">>,
                          {"i"}))

\* match from the loop of line 223 on: tree is what parse returned or threw
matchTree(tree) ==
    IF tree.threw THEN CompileThrew(tree.error)
    ELSE matchSources(sourcesLoop(flatten(tree.tokens, 0, <<>>), 1, <<>>, <<>>))

\* match(path): the matcher {keys, regexp, decoders}, or the error thrown.
match(path) == matchTree(parse(path))

(***************************************************************************)
(* Server (src/server.js, the class of lines 28-147).                      *)
(*                                                                         *)
(* A handler is [method, path, pathMatcher]; its callback is known by the  *)
(* handler's index.  A request carries, with its method and url, what the  *)
(* environment decides while it is answered: whether the host header makes *)
(* a URL, what the matched callback does, what the file system holds at    *)
(* the path, and whether request and response are closed.                  *)
(* The response records what #requestHandle did: the handlers whose        *)
(* matcher it called, each with what the matcher returned ("false",        *)
(* "match") or threw, the callbacks it invoked, who ran the static         *)
(* responder, the status lines written with writeHead by the router and    *)
(* the static responder, whether headers are sent, and whether an          *)
(* exception left #requestHandle.                                          *)
(***************************************************************************)
\* HTTP.METHODS, the part of it the model registers with
HTTP_METHODS == {"CONNECT", "DELETE", "GET", "HEAD", "OPTIONS", "POST", "PUT", "TRACE"}

NotAString == <<undefined>>

NoRequest == [method |-> "", url |-> <<>>, host |-> TRUE, callback |-> "",
              fs |-> "", requestClosed |-> FALSE, responseClosed |-> FALSE]

NoResponse == [tried |-> <<>>, invoked |-> <<>>, static |-> <<>>, status |-> <<>>,
               headersSent |-> FALSE, uncaught |-> FALSE]

Done(res) == [threw |-> FALSE, res |-> res]
Raised(res) == [threw |-> TRUE, res |-> res]

\* Faulty variant of writeHead: a status line is written whether or not the
\* headers are out already.
writeHeadAgain(res, code) ==
    Done([res EXCEPT !.status = Append(@, code), !.headersSent = TRUE])

\* response.writeHead(code): ERR_HTTP_HEADERS_SENT once the headers are out
writeHead(res, code) ==
    IF res.headersSent THEN Raised(res)
    ELSE Done([res EXCEPT !.status = Append(@, code), !.headersSent = TRUE])

\* The pathname the URL parser keeps of a string of the model's characters:
\* it percent-encodes the double quote and leaves the others as they are.
RECURSIVE urlPathname(_)
urlPathname(str) ==
    IF str = <<>> THEN <<>>
    ELSE (IF Head(str) = "\"" THEN <<"%", "2", "2">> ELSE <<Head(str)>>)
             \o urlPathname(Tail(str))

\* #useDirectory, called by the router or through a callback's useFallback
useDirectory(res, req, pathname, by) ==
    LET res1 == [res EXCEPT !.static = Append(@, by)] IN
    IF decodeURIComponent(pathname).threw THEN Raised(res1)
    ELSE IF req.fs = "file" THEN Done(res1)
    ELSE IF req.fs = "directory" THEN writeHead(res1, 302)
    ELSE writeHead(res1, 404)

\* #doFallback
doFallback(res, req, pathname) ==
    IF ~req.requestClosed
    THEN useDirectory(res, req, pathname, "callback").res
    ELSE res

\* handler.callback(request, response, requestURL, match.params, useFallback)
callback(res, req, pathname) ==
    IF req.callback = "respond"
    THEN Done([res EXCEPT !.headersSent = TRUE])
    ELSE IF req.callback = "throw" THEN Raised(res)
    ELSE IF req.callback = "fallback" THEN Done(doFallback(res, req, pathname))
    ELSE IF req.callback = "respondThrow"
    THEN Raised([res EXCEPT !.headersSent = TRUE])
    ELSE Raised(doFallback(res, req, pathname))

\* the outer catch of #requestHandle
catch(res, req) ==
    IF req.responseClosed THEN res
    ELSE LET w == writeHead(res, 400) IN
         IF w.threw THEN [res EXCEPT !.uncaught = TRUE] ELSE w.res

\* this.#handlers.filter(handler => handler.method === request.method), by index
RECURSIVE validHandlers(_, _, _)
validHandlers(hs, k, method) ==
    IF k > Len(hs) THEN <<>>
    ELSE (IF hs[k].method = method THEN <<k>> ELSE <<>>) \o validHandlers(hs, k + 1, method)

\* for (let handler of validHandlers) ...; this.#useDirectory(...)
RECURSIVE dispatch(_, _, _, _, _, _)

\* Faulty variant of the loop body: it lacks the return after a callback that
\* came back and goes on to the next handler.
forHandlerWithoutReturn(hs, valid, k, req, pathname, res, m) ==
    LET res1 == [res EXCEPT !.tried =
                    Append(@, [handler |-> valid[k], returned |-> m.kind])]
    IN  IF m.kind \notin {"match", "false"} THEN catch(res1, req)
        ELSE IF m.kind = "false" THEN dispatch(hs, valid, k + 1, req, pathname, res1)
        ELSE LET c == callback([res1 EXCEPT !.invoked = Append(@, valid[k])],
                               req, pathname)
             IN  IF ~c.threw THEN dispatch(hs, valid, k + 1, req, pathname, c.res)
                 ELSE IF req.responseClosed THEN c.res
                 ELSE LET w == writeHead(c.res, 500) IN
                      IF w.threw THEN catch(c.res, req) ELSE w.res

\* the body of the loop for handler valid[k]; m is what its pathMatcher
\* returned or threw
forHandler(hs, valid, k, req, pathname, res, m) ==
    LET res1 == [res EXCEPT !.tried =
                    Append(@, [handler |-> valid[k], returned |-> m.kind])]
    IN  IF m.kind \notin {"match", "false"} THEN catch(res1, req)
        ELSE IF m.kind = "false" THEN dispatch(hs, valid, k + 1, req, pathname, res1)
        ELSE LET c == callback([res1 EXCEPT !.invoked = Append(@, valid[k])],
                               req, pathname)
             IN  IF ~c.threw THEN c.res
                 ELSE IF req.responseClosed THEN c.res
                 ELSE LET w == writeHead(c.res, 500) IN
                      IF w.threw THEN catch(c.res, req) ELSE w.res

dispatch(hs, valid, k, req, pathname, res) ==
    IF k > Len(valid)
    THEN LET u == useDirectory(res, req, pathname, "router") IN
         IF u.threw THEN catch(u.res, req) ELSE u.res
    ELSE forHandler(hs, valid, k, req, pathname, res,
                    matchInput(hs[valid[k]].pathMatcher, pathname))

\* #requestHandle(request, response)
requestHandle(hs, req) ==
    IF req.url = <<>> \/ Head(req.url) # "/" THEN catch(NoResponse, req)
    ELSE IF ~req.host THEN catch(NoResponse, req)
    ELSE LET decoded == decodeURIComponent(urlPathname(req.url)) IN
         IF decoded.threw THEN catch(NoResponse, req)
         ELSE dispatch(hs, validHandlers(hs, 1, req.method), 1, req,
                       urlPathname(decoded.value), NoResponse)

\* Faulty variant of push: the handler is appended before pathExp.match(path)
\* is evaluated, and stays in the list when the template does not compile.
pushBeforeCompile(hs, method, path, pathMatcher) ==
    [threw |-> pathMatcher.threw,
     handlers |-> Append(hs, [method |-> method, path |-> path,
                              pathMatcher |-> pathMatcher])]

\* this.#handlers.push({...}) with pathMatcher what pathExp.match(path)
\* returned, or its error going out of on
push(hs, method, path, pathMatcher) ==
    IF pathMatcher.threw THEN [threw |-> TRUE, handlers |-> hs]
    ELSE [threw |-> FALSE,
          handlers |-> Append(hs, [method |-> method, path |-> path,
                                   pathMatcher |-> pathMatcher])]

\* Server.on(method, path, requestHandler): the handler list it leaves, and
\* whether it threw
on(hs, method, path, isFunction) ==
    IF method \notin HTTP_METHODS THEN [threw |-> TRUE, handlers |-> hs]
    ELSE IF path = NotAString \/ path = <<>> \/ Head(path) # "/"
    THEN [threw |-> TRUE, handlers |-> hs]
    ELSE IF ~isFunction THEN [threw |-> TRUE, handlers |-> hs]
    ELSE push(hs, method, path, match(path))

(***************************************************************************)
(* The compiler as a state machine: a template is compiled once, and the   *)
(* matcher it yields is then called with inputs.                           *)
(***************************************************************************)
TemplateChars == {"/", "a", ":", "*", "{", "}", "\\", "("}

InputChars == {"/", "a", "%", "2"}

SampleTemplates == {
    <<"/", "a", "/", ":", "i", "d">>,
    <<"/", "A", "/", ":", "i", "d">>,
    <<"/", "f", "i", "l", "e", "s", "/", "*", "r", "e", "s", "t">>,
    <<"/", "a", "{", "/", "b", "}">>,
    <<":", "a", ":", "b">>,
    <<"{", "a", "}", "{", "b", "}">>,
    <<"{", "a", "{", "b", "}", "}", "c">>,
    <<"/", ":", "a", "{", "/", ":", "b", "}">>,
    <<"{", "/", ":", "a", "}", "/", "*", "b">>,
    <<"/", ":", "a", "{", ":", "b", "}">>,
    <<"/", ":", "a", "-", ":", "b">>,
    <<"/", ":", "a", "-", "x", ":", "b">>,
    <<":", "a", "{", "/", "}", ":", "b">>,
    <<":", "a", "{", ":", "b", "}">>,
    <<"-", ":", "a", ":", "b">>,
    <<"{", ":", "a", "/", "}", "{", ":", "b", "}">>,
    <<"/", "*", "a", "{", "/", ":", "b", "/", "}">>,
    <<"{", ":", "\"", "a", "\"", "2", "/", "}", "{", ":", "b", "}">>,
    <<"/", "\\", "(", ":", "a", "\\", ")">>,
    <<"/", "a", "!">>,
    <<"/", "a", "\\", "!">>,
    <<"/", ":", "\"", "a", "b", "\"">>,
    <<"/", ":", "\"", "a">>,
    <<"/", "a", "/", "\\">>}

SampleInputs == {
    <<"/", "a", "/", "1", "2", "3">>,
    <<"/", "f", "i", "l", "e", "s", "/", "a", "/", "b", "/", "c">>,
    <<"/", "a", "/", "b">>,
    <<"/", "a", "/", "b", "/">>,
    <<"/", "a", "/", "a">>,
    <<"/", "(", "a", ")">>,
    <<"/", "a", "-", "b">>,
    <<"/", "a", "-", "x", "b">>,
    <<"{", "a", "}">>,
    <<"/", "a", "!">>,
    <<"a", "b">>,
    <<"a", "b", "c">>,
    <<"c">>}

CompileTemplates == AllSeqs(TemplateChars, MaxTemplateLen) \cup SampleTemplates

MatchTemplates == AllSeqs(TemplateChars, MaxMatchTemplateLen) \cup SampleTemplates

Inputs == AllSeqs(InputChars, MaxInputLen) \cup SampleInputs

NoTree == [threw |-> TRUE, error |-> NoError, tokens |-> <<>>, p |-> 0]
NoMatcher == CompileThrew(NoError)
NoResult == [kind |-> "none", path |-> <<>>, params |-> EmptyParams]

InitWith(templates) ==
    /\ template \in templates
    /\ pc = "start"
    /\ parsed = NoTree
    /\ flat = <<>>
    /\ matcher = NoMatcher
    /\ input = <<>>
    /\ result = NoResult
    /\ handlers = <<>>
    /\ registered = "none"
    /\ request = NoRequest
    /\ response = NoResponse
    /\ shared = <<>>
    /\ calls = <<>>

\* match(template), with what parse returned and what flatten yields kept
Compile ==
    /\ pc = "start"
    /\ parsed' = parse(template)
    /\ flat' = IF parsed'.threw THEN <<>> ELSE flatten(parsed'.tokens, 0, <<>>)
    /\ matcher' = match(template)
    /\ pc' = IF matcher'.threw THEN "error" ELSE "compiled"
    /\ UNCHANGED <<template, input, result, handlers, registered, request, response,
                   shared, calls>>

\* matcher(str)
MatchInput(str) ==
    /\ pc = "compiled"
    /\ input' = str
    /\ result' = matchInput(matcher, str)
    /\ pc' = "matched"
    /\ UNCHANGED <<template, parsed, flat, matcher, handlers, registered, request, response,
                   shared, calls>>

Init == InitWith(MatchTemplates)

\* the template as a caller would type the path it stands for: each
\* backslash dropped, the character after it kept
RECURSIVE Unescaped(_)
Unescaped(str) ==
    IF str = <<>> THEN <<>>
    ELSE IF Head(str) = "\\"
    THEN IF Len(str) >= 2
         THEN <<str[2]>> \o Unescaped(SubSeq(str, 3, Len(str)))
         ELSE <<>>
    ELSE <<Head(str)>> \o Unescaped(Tail(str))

Next == Compile \/ \E str \in Inputs \cup {Unescaped(template)} : MatchInput(str)

Spec == Init /\ [][Next]_vars

InitCompile == InitWith(CompileTemplates)

NextCompile == Compile

SpecCompile == InitCompile /\ [][NextCompile]_vars

(***************************************************************************)
(* The router as a state machine: routes are registered and requests are   *)
(* answered, in any order.                                                 *)
(***************************************************************************)
Methods == {"GET", "POST", "BREW"}

RoutePaths == {
    <<"/", ":", "a">>,
    <<"/", "a", "{", "/", "*", "b", "}">>,
    <<"/", ":">>,
    <<"a">>,
    NotAString}

RequestUrls == {
    <<"/", "a">>,
    <<"/", "a", "/", "b">>,
    <<"/", "%", "2", "2">>,
    <<"/", "%", "2", "5">>,
    <<"/", "%">>,
    <<"a">>}

CallbackBehaviours == {"respond", "throw", "fallback", "respondThrow", "fallbackThrow"}

Requests ==
    [method : {"GET", "POST"}, url : RequestUrls, host : BOOLEAN,
     callback : CallbackBehaviours, fs : {"file", "directory", "missing"},
     requestClosed : BOOLEAN, responseClosed : BOOLEAN]

InitServer ==
    /\ template = <<>>
    /\ pc = "serving"
    /\ parsed = NoTree
    /\ flat = <<>>
    /\ matcher = NoMatcher
    /\ input = <<>>
    /\ result = NoResult
    /\ handlers = <<>>
    /\ registered = "none"
    /\ request = NoRequest
    /\ response = NoResponse
    /\ shared = <<>>
    /\ calls = <<>>

On(method, path, isFunction) ==
    LET r == on(handlers, method, path, isFunction) IN
    /\ pc = "serving"
    /\ r.threw \/ Len(handlers) < MaxHandlers
    /\ handlers' = r.handlers
    /\ registered' = IF r.threw THEN "threw" ELSE "pushed"
    /\ UNCHANGED <<template, pc, parsed, flat, matcher, input, result, request, response,
                   shared, calls>>

\* One request is followed to its answer; the handler list is as the calls of
\* Server.on before it left it.
RequestHandle(req) ==
    /\ pc = "serving"
    /\ pc' = "answered"
    /\ request' = req
    /\ response' = requestHandle(handlers, req)
    /\ UNCHANGED <<template, parsed, flat, matcher, input, result, handlers, registered,
                   shared, calls>>

NextServer ==
    \/ \E method \in Methods, path \in RoutePaths, isFunction \in BOOLEAN :
           On(method, path, isFunction)
    \/ \E req \in Requests : RequestHandle(req)

SpecServer == InitServer /\ [][NextServer]_vars

(***************************************************************************)
(* Matchers that are kept and called again: match(path) is called for a    *)
(* few templates, and the functions it returned are called, in any order,  *)
(* any number of times up to MaxCalls.                                     *)
(***************************************************************************)
CallTemplates == {
    <<"/", ":", "a">>,
    <<"/", "a", "{", "/", "*", "b", "}">>,
    <<"/", "a">>
}

CallInputs == {
    <<"/", "a">>,
    <<"/", "a", "/", "b">>,
    <<"/", "b", "/">>
}

InitCalls ==
    /\ template = <<>>
    /\ pc = "calling"
    /\ parsed = NoTree
    /\ flat = <<>>
    /\ matcher = NoMatcher
    /\ input = <<>>
    /\ result = NoResult
    /\ handlers = <<>>
    /\ registered = "none"
    /\ request = NoRequest
    /\ response = NoResponse
    /\ shared = <<>>
    /\ calls = <<>>

\* what a call of matchInput leaves of its this: exec may write
\* this.regexp.lastIndex, and matchInput itself writes only to the params
\* object it created
thisAfter(this, m) == [this EXCEPT !.regexp.lastIndex = m.lastIndex]

\* const fn = match(path), kept
CompileShared(path) ==
    /\ pc = "calling"
    /\ Len(shared) < MaxMatchers
    /\ ~match(path).threw
    /\ shared' = Append(shared, [template |-> path, matcher |-> match(path)])
    /\ UNCHANGED <<template, pc, parsed, flat, matcher, input, result,
                   handlers, registered, request, response, calls>>

\* fn(str), for the i-th of the functions kept
Call(i, str) ==
    /\ pc = "calling"
    /\ Len(calls) < MaxCalls
    /\ i \in 1..Len(shared)
    /\ input' = str
    /\ result' = matchInput(shared[i].matcher, str)
    /\ shared' = [shared EXCEPT ![i].matcher = thisAfter(@, exec(@.regexp, str))]
    /\ calls' = Append(calls, i)
    /\ UNCHANGED <<template, pc, parsed, flat, matcher,
                   handlers, registered, request, response>>

NextCalls ==
    \/ \E path \in CallTemplates : CompileShared(path)
    \/ \E i \in 1..MaxMatchers, str \in CallInputs : Call(i, str)

SpecCalls == InitCalls /\ [][NextCalls]_vars

(***************************************************************************)
(* C1.  Dispatch order of the router.                                      *)
(***************************************************************************)
Answered == pc = "answered"

\* the registered handlers of the request's method
OfMethod == {i \in 1..Len(handlers) : handlers[i].method = request.method}

Tried == response.tried

\* some handler of the request's method returned a match
SomeMatched == \E j \in 1..Len(Tried) : Tried[j].returned = "match"

\* every handler of the request's method was asked and returned false
NoneMatched ==
    /\ {Tried[j].handler : j \in 1..Len(Tried)} = OfMethod
    /\ \A j \in 1..Len(Tried) : Tried[j].returned = "false"

\* the matchers are tried in registration order, only those of the request's
\* method, none skipped, and none after one that did not return false
TriedInOrder ==
    /\ \A j \in 1..Len(Tried) : Tried[j].handler \in OfMethod
    /\ \A j \in 1..Len(Tried) - 1 :
           /\ Tried[j].handler < Tried[j + 1].handler
           /\ Tried[j].returned = "false"
    /\ \A j \in 1..Len(Tried) : \A i \in OfMethod :
           i < Tried[j].handler => \E l \in 1..j : Tried[l].handler = i

\* the callback invoked is that of the first matcher that matched, and no other
FirstMatchInvoked ==
    /\ Len(response.invoked) <= 1
    /\ SomeMatched <=> Len(response.invoked) = 1
    /\ Len(response.invoked) = 1 =>
           /\ Tried[Len(Tried)].handler = response.invoked[1]
           /\ Tried[Len(Tried)].returned = "match"

\* C1 as stated: for every request the router tries the matchers of the
\* request's method in registration order, invokes the callback of the first
\* that matches and of no other, tries none after it, and the static
\* responder runs only when no handler of that method matched.
C1_AsStated ==
    Answered =>
        /\ TriedInOrder
        /\ FirstMatchInvoked
        /\ Len(response.static) > 0 => NoneMatched

\* C1 amended: as stated, except that the static responder runs either by the
\* router, and then only when no handler of the method matched, or through
\* the useFallback function of the one callback that was invoked.
C1_DispatchOrder ==
    Answered =>
        /\ TriedInOrder
        /\ FirstMatchInvoked
        /\ \A j \in 1..Len(response.static) :
               IF response.static[j] = "router"
               THEN NoneMatched
               ELSE /\ Len(response.invoked) = 1
                    /\ request.callback \in {"fallback", "fallbackThrow"}

\* a request whose first handler of the method did not match and whose
\* second did, and whose callback fell back to the static responder
C1_Witness ==
    /\ Answered
    /\ Len(Tried) = 2
    /\ Tried[1].returned = "false"
    /\ response.invoked = <<2>>
    /\ response.static = <<"callback">>

(***************************************************************************)
(* C2.  match(input) at match time.                                        *)
(***************************************************************************)
Matched == pc = "matched"

\* C2 as stated: once a matcher is constructed, match(input) never throws:
\* every input yields a {path, params} result or false.
C2_NeverThrows == Matched => result.kind \in {"match", "false"}

(***************************************************************************)
(* C3.  The keys of params.                                                *)
(***************************************************************************)
IsCapture(node) == node.type \in {"param", "wildcard"}

CaptureNames(seq) == {seq[i].name : i \in {j \in 1..Len(seq) : IsCapture(seq[j])}}

\* the pattern of one flattened sequence alone, anchored as match() anchors
AloneRegExp(seq) ==
    RegExp(<<"^", "(", "?", ":">> \o sequenceToRegExp(seq, <<>>).result
               \o <<")", "(", "?", ":", "\\", "/", "$", ")", "?", "$">>,
           {"i"})

MatchesAlone(seq, str) == exec(AloneRegExp(seq), str).matched

\* the first alternative, in flatten's order, that matches str by itself
IsMatchedAlternative(k, str) ==
    /\ MatchesAlone(flat[k], str)
    /\ \A j \in 1..(k - 1) : ~MatchesAlone(flat[j], str)

\* C3: on a successful match the keys of params are exactly the names of the
\* captures of the alternative that matched; no capture of an omitted group
\* or of another alternative is a key.
C3_ParamsOfMatchedAlternative ==
    (Matched /\ result.kind = "match") =>
        \E k \in 1..Len(flat) :
            /\ IsMatchedAlternative(k, input)
            /\ DOMAIN result.params = CaptureNames(flat[k])

\* /:a{/:b} matched by /a: the alternative without the group; b is no key
C3_Witness ==
    /\ Matched
    /\ template = <<"/", ":", "a", "{", "/", ":", "b", "}">>
    /\ input = <<"/", "a">>
    /\ result.kind = "match"
    /\ DOMAIN result.params = {<<"a">>}
    /\ Len(matcher.keys) = 3

(***************************************************************************)
(* C4.  What flatten yields, and in which order.                           *)
(***************************************************************************)
Compiled == pc = "compiled"
Tried2Compile == pc \in {"compiled", "error"}

RECURSIVE PrefixEach(_, _, _), CrossEach(_, _, _)
\* each of seqs with head put in front, in order
PrefixEach(head, seqs, k) ==
    IF k > Len(seqs) THEN <<>>
    ELSE <<head \o seqs[k]>> \o PrefixEach(head, seqs, k + 1)

\* every first followed by every second, firsts outermost
CrossEach(firsts, seconds, k) ==
    IF k > Len(firsts) THEN <<>>
    ELSE PrefixEach(firsts[k], seconds, 1) \o CrossEach(firsts, seconds, k + 1)

\* The alternatives of a node list, by choice: a group is included, in each of
\* its own alternatives, or omitted; the alternatives that include it come first.
RECURSIVE Alternatives(_)
Alternatives(nodes) ==
    IF Len(nodes) = 0 THEN << <<>> >>
    ELSE LET rest == Alternatives(Tail(nodes)) IN
         IF Head(nodes).type = "group"
         THEN CrossEach(Alternatives(Head(nodes).tokens), rest, 1) \o rest
         ELSE PrefixEach(<<Head(nodes)>>, rest, 1)

\* C4: flatten yields exactly the group-free sequences of the include-or-omit
\* choices, each in source order, those including a group before those
\* omitting it; for {a}{b}: [a,b], [a], [b], [].
C4_FlattenOrder ==
    (Tried2Compile /\ ~parsed.threw) =>
        /\ flat = Alternatives(parsed.tokens)
        /\ \A k \in 1..Len(flat) : \A i \in 1..Len(flat[k]) : flat[k][i].type # "group"
        /\ template = <<"{", "a", "}", "{", "b", "}">> =>
               flat = << <<TextNode(<<"a">>), TextNode(<<"b">>)>>, <<TextNode(<<"a">>)>>,
                         <<TextNode(<<"b">>)>>, <<>> >>

\* {a{b}}c: a group nested in a group and a node after it; three alternatives
C4_Witness ==
    /\ Compiled
    /\ template = <<"{", "a", "{", "b", "}", "}", "c">>
    /\ Len(flat) = 3
    /\ flat[1] = <<TextNode(<<"a">>), TextNode(<<"b">>), TextNode(<<"c">>)>>
    /\ flat[3] = <<TextNode(<<"c">>)>>

(***************************************************************************)
(* C5, C6.  Captures that nothing bounds.                                  *)
(***************************************************************************)
AdjacentCaptures(seq) ==
    \E i \in 1..Len(seq) - 1 : IsCapture(seq[i]) /\ IsCapture(seq[i + 1])

MissingText == pc = "error" /\ matcher.threw /\ matcher.error.kind = "Missing text after"

\* C5: compile raises an error for every template of which some flattened
\* sequence holds two captures with no literal text between them, also when
\* only the omission or inclusion of a group makes them adjacent.
C5_AdjacentCapturesRejected ==
    (Tried2Compile /\ ~parsed.threw /\ \E k \in 1..Len(flat) : AdjacentCaptures(flat[k]))
        => MissingText

\* :a{/}:b is rejected for the alternative that omits the group alone
C5_Witness ==
    /\ MissingText
    /\ template = <<":", "a", "{", "/", "}", ":", "b">>
    /\ ~AdjacentCaptures(flat[1])
    /\ AdjacentCaptures(flat[2])

\* the index of the capture before position i of seq, 0 if there is none
PreviousCapture(seq, i) ==
    IF \E j \in 1..(i - 1) : IsCapture(seq[j])
    THEN CHOOSE j \in 1..(i - 1) :
             IsCapture(seq[j]) /\ \A l \in (j + 1)..(i - 1) : ~IsCapture(seq[l])
    ELSE 0

\* the delimiter occurs in the literal text between the previous capture and i
DelimiterInRun(seq, i) ==
    \E j \in (PreviousCapture(seq, i) + 1)..(i - 1) : Includes(seq[j].value, "/")

FollowedByText(seq, i) == i < Len(seq) /\ seq[i + 1].type = "text" /\ seq[i + 1].value # <<>>

PrecededByText(seq, i) == i > 1 /\ seq[i - 1].type = "text" /\ seq[i - 1].value # <<>>

EveryCapture(P(_, _)) ==
    \A k \in 1..Len(flat) : \A i \in 1..Len(flat[k]) :
        IsCapture(flat[k][i]) => P(flat[k], i)

BoundedAsStated(seq, i) == DelimiterInRun(seq, i) \/ FollowedByText(seq, i)

BoundedAsCoded(seq, i) ==
    PreviousCapture(seq, i) = 0 \/ DelimiterInRun(seq, i) \/ PrecededByText(seq, i)

\* C6 as stated: in every accepted template every capture of every flattened
\* sequence has the delimiter in its own run or is immediately followed by
\* non-empty literal text; a template with a capture that has neither is
\* rejected with the missing-text error.
C6_AsStated ==
    /\ Compiled => EveryCapture(BoundedAsStated)
    /\ (Tried2Compile /\ ~parsed.threw /\ ~EveryCapture(BoundedAsStated)) => MissingText

\* C6 amended: every capture of every flattened sequence of an accepted
\* template is the first capture of its sequence, or has the delimiter in the
\* literal text since the previous capture, or is immediately preceded by
\* non-empty literal text; a template that parses and has a capture with none
\* of these is rejected with the missing-text error.
C6_CapturesBounded ==
    /\ Compiled => EveryCapture(BoundedAsCoded)
    /\ (Tried2Compile /\ ~parsed.threw /\ ~EveryCapture(BoundedAsCoded)) => MissingText

\* /:a-:b is accepted: b has no delimiter in its run and nothing after it, and
\* is bounded by the text before it
C6_Witness ==
    /\ Compiled
    /\ template = <<"/", ":", "a", "-", ":", "b">>
    /\ ~BoundedAsStated(flat[1], 4)
    /\ BoundedAsCoded(flat[1], 4)

(***************************************************************************)
(* C7.  Keys, decoders and the capturing groups of the pattern.            *)
(***************************************************************************)
RECURSIVE CapturesOf(_, _)
\* the capture nodes of seq from index i on, in order
CapturesOf(seq, i) ==
    IF i > Len(seq) THEN <<>>
    ELSE (IF IsCapture(seq[i]) THEN <<seq[i]>> ELSE <<>>) \o CapturesOf(seq, i + 1)

RECURSIVE CapturesAcross(_, _)
\* the captures of seqs[k], seqs[k + 1], ... one sequence after the other
CapturesAcross(seqs, k) ==
    IF k > Len(seqs) THEN <<>>
    ELSE CapturesOf(seqs[k], 1) \o CapturesAcross(seqs, k + 1)

RECURSIVE CapturingGroups(_), CapturingGroupsOfAll(_, _)
\* the capturing groups of a pattern tree, in the order of their opening
\* parentheses
CapturingGroups(node) ==
    IF node.t \in {"seq", "alt"} THEN CapturingGroupsOfAll(node.xs, 1)
    ELSE IF node.t = "group"
    THEN (IF node.idx > 0 THEN <<node>> ELSE <<>>) \o CapturingGroups(node.x)
    ELSE IF node.t \in {"nla", "plus", "star", "opt"} THEN CapturingGroups(node.x)
    ELSE <<>>

CapturingGroupsOfAll(xs, k) ==
    IF k > Len(xs) THEN <<>>
    ELSE CapturingGroups(xs[k]) \o CapturingGroupsOfAll(xs, k + 1)

\* what a capturing group is a capture of, read off its body: one or more of
\* any character at all is a wildcard, one or more of anything that excludes
\* the delimiter a param
KindOfGroup(g) ==
    IF Len(g.x.xs) = 1 /\ Len(g.x.xs[1].xs) = 1 /\ g.x.xs[1].xs[1].t = "plus"
    THEN LET atom == g.x.xs[1].xs[1].x IN
         IF atom.t = "class" /\ ~atom.neg
                /\ atom.items = <<[esc |-> TRUE, c |-> "s"], [esc |-> TRUE, c |-> "S"]>>
         THEN "wildcard"
         ELSE IF atom.t = "class" /\ atom.neg /\ \E j \in 1..Len(atom.items) :
                                                     atom.items[j].c = "/"
         THEN "param"
         ELSE IF atom.t = "group" /\ atom.idx = 0
         THEN "param"
         ELSE "other"
    ELSE "other"

\* C7: a compiled matcher has one key per capture occurrence across all
\* flattened sequences, in the order of the alternation, and the i-th key and
\* decoder belong to the i-th capturing group of the pattern: text and the
\* boundary-exclusion fragments add no capturing group.
C7_KeysAlignWithGroups ==
    Compiled =>
        LET groups == CapturingGroups(matcher.regexp.node) IN
        /\ matcher.keys = CapturesAcross(flat, 1)
        /\ matcher.regexp.groups = Len(matcher.keys)
        /\ Len(groups) = Len(matcher.keys)
        /\ Len(matcher.decoders) = Len(matcher.keys)
        /\ \A i \in 1..Len(matcher.keys) :
               /\ groups[i].idx = i
               /\ KindOfGroup(groups[i]) = matcher.keys[i].type
               /\ matcher.decoders[i] =
                      (IF matcher.keys[i].type = "wildcard" THEN "splitDecode"
                       ELSE "decodeURIComponent")

\* /:a-x:b: b is bounded by a boundary-exclusion fragment with a lookahead
C7_Witness ==
    /\ Compiled
    /\ template = <<"/", ":", "a", "-", "x", ":", "b">>
    /\ Len(matcher.keys) = 2
    /\ matcher.regexp.groups = 2
    /\ \E g \in {CapturingGroups(matcher.regexp.node)[2]} :
           g.x.xs[1].xs[1].x.t = "group"

(***************************************************************************)
(* C8.  The reserved characters ( ) [ ] + ? !                              *)
(***************************************************************************)
Reserved == {"(", ")", "[", "]", "+", "?", "!"}

RECURSIVE ReservedUnescapedFrom(_, _, _)
\* a reserved character stands in str at k or later, neither after a
\* backslash nor inside a quoted name (quoted: k is inside one)
ReservedUnescapedFrom(str, k, quoted) ==
    IF k > Len(str) THEN FALSE
    ELSE IF str[k] = "\\" THEN ReservedUnescapedFrom(str, k + 2, quoted)
    ELSE IF quoted THEN ReservedUnescapedFrom(str, k + 1, str[k] # "\"")
    ELSE IF str[k] \in {":", "*"} /\ k < Len(str) /\ str[k + 1] = "\""
    THEN ReservedUnescapedFrom(str, k + 2, TRUE)
    ELSE str[k] \in Reserved \/ ReservedUnescapedFrom(str, k + 1, FALSE)

ReservedUnescaped(str) == ReservedUnescapedFrom(str, 1, FALSE)

EscapedReserved(str) ==
    \E k \in 1..Len(str) - 1 :
        /\ str[k] = "\\" /\ str[k + 1] \in Reserved
        /\ Unescaped(SubSeq(str, 1, k - 1)) \o <<str[k + 1]>> \o Unescaped(SubSeq(str, k + 2, Len(str)))
               = Unescaped(str)

TextOnly == ~parsed.threw /\ \A i \in 1..Len(parsed.tokens) : parsed.tokens[i].type = "text"

\* C8 as stated: a template containing a reserved character unescaped compiles
\* and the matcher matches that character literally.
C8_AsStated ==
    (pc # "start" /\ ReservedUnescaped(template)) => pc \in {"compiled", "matched"}

\* C8 amended: a template containing a reserved character unescaped, outside
\* a quoted name, does not compile; written after a backslash the character is
\* literal text: the template of literal text compiles and matches its
\* unescaped text, and nothing without that character.
C8_ReservedRejected ==
    /\ (pc # "start" /\ ReservedUnescaped(template)) => pc = "error"
    /\ (pc # "start" /\ TextOnly /\ EscapedReserved(template)) => pc \in {"compiled", "matched"}
    /\ (Matched /\ TextOnly /\ EscapedReserved(template)) =>
           /\ input = Unescaped(template) => result.kind = "match"
           /\ result.kind = "match" => \E k \in 1..Len(input) : input[k] \in Reserved

\* a( was handed to the compiler and refused at the parenthesis
C8_Witness ==
    /\ pc = "error"
    /\ template = <<"a", "(">>
    /\ ReservedUnescaped(template)
    /\ parsed.threw
    /\ parsed.error.kind = "Unexpected"
    /\ parsed.error.found = "("
    /\ parsed.error.index = 1

\* /\( matched against /( : the escaped parenthesis as literal text
C8_WitnessEscaped ==
    /\ Matched
    /\ template = <<"/", "\\", "(">>
    /\ input = <<"/", "(">>
    /\ result.kind = "match"

(***************************************************************************)
(* C9.  Backslash escapes.                                                 *)
(***************************************************************************)
RECURSIVE TrailingBackslashes(_)
TrailingBackslashes(str) ==
    IF str = <<>> \/ str[Len(str)] # "\\" THEN 0
    ELSE 1 + TrailingBackslashes(SubSeq(str, 1, Len(str) - 1))

\* the last character is a backslash that no backslash before it escapes
EndsWithLoneBackslash(str) == TrailingBackslashes(str) % 2 = 1

\* C9 as stated: a backslash followed by a character contributes that
\* character as literal text, and a template whose last character is a lone
\* backslash is rejected at compile time; it never compiles to a matcher.
C9_AsStated ==
    /\ (Tried2Compile /\ Len(template) = 2 /\ template[1] = "\\") =>
           (Compiled /\ parsed.tokens = <<TextNode(<<template[2]>>)>>)
    /\ (Tried2Compile /\ EndsWithLoneBackslash(template)) => pc = "error"

(***************************************************************************)
(* C10.  Round trip of templates without captures.                         *)
(***************************************************************************)
RECURSIVE HasCapture(_)
\* some node of the tree, at any depth, is a capture
HasCapture(nodes) ==
    \E i \in 1..Len(nodes) :
        IsCapture(nodes[i]) \/ (nodes[i].type = "group" /\ HasCapture(nodes[i].tokens))

RoundTrips ==
    /\ result.kind = "match"
    /\ result.path = input
    /\ DOMAIN result.params = {}

\* C10 as stated: for any template with no captures, matching the template
\* text with its escapes removed succeeds, with the whole text as path and no
\* params.
C10_AsStated ==
    (Matched /\ ~HasCapture(parsed.tokens) /\ input = Unescaped(template)) => RoundTrips

\* C10 amended: for any template that parses to literal text alone (no
\* captures and no groups), compile succeeds and matching the template text
\* with its escapes removed succeeds, with the whole text as path and no
\* params.
C10_RoundTrip ==
    /\ (pc # "start" /\ TextOnly) => pc \in {"compiled", "matched"}
    /\ (Matched /\ TextOnly /\ input = Unescaped(template)) => RoundTrips

\* a\* matched against a* : the escape removed, the star matched literally
C10_Witness ==
    /\ Matched
    /\ template = <<"a", "\\", "*">>
    /\ input = <<"a", "*">>
    /\ RoundTrips

(***************************************************************************)
(* C11.  The optional trailing delimiter.                                  *)
(***************************************************************************)
NoTrailingDelimiter(str) == str = <<>> \/ str[Len(str)] # "/"

WithDelimiter(str) == str \o <<"/">>

EndsWithWildcard(seq) == Len(seq) > 0 /\ seq[Len(seq)].type = "wildcard"

MatchedWithoutDelimiter ==
    Matched /\ result.kind = "match" /\ NoTrailingDelimiter(input)

\* C11 as stated: for any compiled template and any input p not ending in
\* '/' that matches, match(p + "/") also succeeds and returns the same params.
C11_AsStated ==
    MatchedWithoutDelimiter =>
        /\ matchInput(matcher, WithDelimiter(input)).kind = "match"
        /\ matchInput(matcher, WithDelimiter(input)).params = result.params

\* C11 amended: for any compiled template and any input p not ending in '/'
\* that matches, the pattern also matches p + "/" (match does not return
\* false), and match(p + "/") returns the same params as match(p) whenever
\* the same flattened alternative matches both and it does not end in a
\* wildcard capture.
C11_TrailingDelimiter ==
    MatchedWithoutDelimiter =>
        /\ matchInput(matcher, WithDelimiter(input)).kind # "false"
        /\ \A k \in 1..Len(flat) :
               (/\ IsMatchedAlternative(k, input)
                /\ IsMatchedAlternative(k, WithDelimiter(input))
                /\ ~EndsWithWildcard(flat[k]))
                   => /\ matchInput(matcher, WithDelimiter(input)).kind = "match"
                      /\ matchInput(matcher, WithDelimiter(input)).params = result.params

\* /:a{/:b} on /a/a and on /a/a/ : the same alternative, the same two params
C11_Witness ==
    /\ MatchedWithoutDelimiter
    /\ template = <<"/", ":", "a", "{", "/", ":", "b", "}">>
    /\ input = <<"/", "a", "/", "a">>
    /\ IsMatchedAlternative(1, WithDelimiter(input))
    /\ matchInput(matcher, WithDelimiter(input)).params = result.params
    /\ DOMAIN result.params = {<<"a">>, <<"b">>}

(***************************************************************************)
(* C12.  The values of params.                                             *)
(***************************************************************************)
\* what the pattern captured in input: Groups[i] is the run of capturing
\* group i, or <<undefined>>
Groups == Tail(exec(matcher.regexp, input).m)

Participates(i) == Groups[i] # <<undefined>>

Delimiters(run) == {k \in 1..Len(run) : run[k] = "/"}

\* the position of the j-th delimiter of run; 0 before the first, one past the
\* end after the last
DelimiterAt(run, j) ==
    IF j = 0 THEN 0
    ELSE IF j > Cardinality(Delimiters(run)) THEN Len(run) + 1
    ELSE CHOOSE k \in Delimiters(run) :
             Cardinality({l \in Delimiters(run) : l < k}) = j - 1

\* the j-th path segment of run
Segment(run, j) == SubSeq(run, DelimiterAt(run, j - 1) + 1, DelimiterAt(run, j) - 1)

ValueOfParam(run) == [list |-> FALSE, v |-> <<decodeURIComponent(run).value>>]

ValueOfWildcard(run) ==
    [list |-> TRUE,
     v |-> [j \in 1..(Cardinality(Delimiters(run)) + 1) |->
               decodeURIComponent(Segment(run, j)).value]]

\* C12: on a successful match a param's value is the one string decoded from
\* its non-empty, delimiter-free run, and a wildcard's value is the list of
\* the decoded segments of its run, one per segment, in input order; of two
\* captures of one name the later one's value is kept.
C12_DecodedValues ==
    (Matched /\ result.kind = "match") =>
        /\ Len(Groups) = Len(matcher.keys)
        /\ \A i \in 1..Len(matcher.keys) :
               Participates(i) =>
                   /\ Groups[i] # <<>>
                   /\ matcher.keys[i].type = "param" => Delimiters(Groups[i]) = {}
                   /\ (\A j \in (i + 1)..Len(matcher.keys) :
                           Participates(j) => matcher.keys[j].name # matcher.keys[i].name)
                          => result.params[matcher.keys[i].name] =
                                 (IF matcher.keys[i].type = "param"
                                  THEN ValueOfParam(Groups[i])
                                  ELSE ValueOfWildcard(Groups[i]))
        /\ (template = <<"/", "f", "i", "l", "e", "s", "/", "*", "r", "e", "s", "t">>
                /\ input = <<"/", "f", "i", "l", "e", "s", "/", "a", "/", "b", "/", "c">>)
               => result.params[<<"r", "e", "s", "t">>] =
                      [list |-> TRUE, v |-> << <<"a">>, <<"b">>, <<"c">> >>]

\* /files/*rest on /files/a/b/c
C12_Witness ==
    /\ Matched
    /\ result.kind = "match"
    /\ template = <<"/", "f", "i", "l", "e", "s", "/", "*", "r", "e", "s", "t">>
    /\ input = <<"/", "f", "i", "l", "e", "s", "/", "a", "/", "b", "/", "c">>
    /\ Groups = << <<"a", "/", "b", "/", "c">> >>
    /\ result.params[<<"r", "e", "s", "t">>].v = << <<"a">>, <<"b">>, <<"c">> >>

\* :a on %22 : the param's run is decoded to one string
C12_WitnessParam ==
    /\ Matched
    /\ template = <<":", "a">>
    /\ input = <<"%", "2", "2">>
    /\ result.kind = "match"
    /\ result.params[<<"a">>] = [list |-> FALSE, v |-> << <<"\"">> >>]

(***************************************************************************)
(* C13.  Unbalanced groups.                                                *)
(***************************************************************************)
RECURSIVE BracesFrom(_, _, _)
\* the braces of str from k on that open or close a group: those that stand
\* neither after a backslash nor inside a quoted name
BracesFrom(str, k, quoted) ==
    IF k > Len(str) THEN <<>>
    ELSE IF str[k] = "\\" THEN BracesFrom(str, k + 2, quoted)
    ELSE IF quoted THEN BracesFrom(str, k + 1, str[k] # "\"")
    ELSE IF str[k] \in {":", "*"} /\ k < Len(str) /\ str[k + 1] = "\""
    THEN BracesFrom(str, k + 2, TRUE)
    ELSE (IF str[k] \in {"{", "}"} THEN <<str[k]>> ELSE <<>>)
             \o BracesFrom(str, k + 1, FALSE)

Braces(str) == BracesFrom(str, 1, FALSE)

\* opening minus closing braces among bs[i..j]
Depth(bs, i, j) ==
    Cardinality({l \in i..j : bs[l] = "{"}) - Cardinality({l \in i..j : bs[l] = "}"})

\* some closing brace closes no open group
Unopened(bs) == \E j \in 1..Len(bs) : Depth(bs, 1, j) < 0

\* some opening brace is never closed
Unclosed(bs) ==
    \E i \in 1..Len(bs) : bs[i] = "{" /\ \A j \in i..Len(bs) : Depth(bs, i, j) > 0

Balanced(bs) == ~Unopened(bs) /\ ~Unclosed(bs)

\* the tokenizer raises nothing on the template and yields no reserved token
OtherwiseWellFormed(str) ==
    \A i \in 1..Len(lexer(str)) : lexer(str)[i].type \notin {"THROW"} \cup Reserved

UnexpectedToken(found, expected) ==
    /\ pc = "error"
    /\ parsed.threw
    /\ parsed.error.kind = "Unexpected"
    /\ parsed.error.found = found
    /\ parsed.error.expected = expected

\* C13 as stated: a template with a '{' that is never closed fails with an
\* unexpected-END error expecting '}', one with a '}' that closes no group
\* with an unexpected-'}' error expecting END, and a template compiles only
\* if its braces balance.
C13_AsStated ==
    Tried2Compile =>
        /\ Unclosed(Braces(template)) => UnexpectedToken("END", "}")
        /\ Unopened(Braces(template)) => UnexpectedToken("}", "END")
        /\ Compiled => Balanced(Braces(template))

\* C13 amended: a template whose braces do not balance never compiles; when
\* the template has no other syntax error (no missing or unterminated name,
\* no reserved character), it fails at the first '}' that closes no group
\* with an unexpected-'}' error expecting END, and, when there is no such
\* '}', at the end with an unexpected-END error expecting '}'.
C13_UnbalancedRejected ==
    Tried2Compile =>
        /\ Compiled => Balanced(Braces(template))
        /\ (OtherwiseWellFormed(template) /\ Unopened(Braces(template)))
               => UnexpectedToken("}", "END")
        /\ (OtherwiseWellFormed(template) /\ ~Unopened(Braces(template))
                /\ Unclosed(Braces(template)))
               => UnexpectedToken("END", "}")

\* {a{ : two groups left open
C13_Witness ==
    /\ template = <<"{", "a", "{">>
    /\ Unclosed(Braces(template))
    /\ UnexpectedToken("END", "}")
    /\ parsed.error.index = 3

(***************************************************************************)
(* C14.  The earliest alternative wins.                                    *)
(***************************************************************************)
\* the matcher of one flattened sequence alone
AloneMatcher(seq) ==
    [threw |-> FALSE, error |-> NoError, keys |-> CapturesOf(seq, 1),
     regexp |-> AloneRegExp(seq),
     decoders |-> [i \in 1..Len(CapturesOf(seq, 1)) |->
                      IF CapturesOf(seq, 1)[i].type = "wildcard"
                      THEN "splitDecode" ELSE "decodeURIComponent"]]

\* the alternatives in the order include-before-omit that match str alone
MatchingAlternatives(str) ==
    {k \in 1..Len(Alternatives(parsed.tokens)) :
        MatchesAlone(Alternatives(parsed.tokens)[k], str)}

Earliest(S) == CHOOSE k \in S : \A j \in S : k <= j

\* C14: when more than one flattened alternative matches an input, the result
\* is the one the earliest of them, in the order include-before-omit, produces
\* alone: its captures, and no capture of a later alternative.
C14_EarliestAlternativeWins ==
    (Matched /\ Cardinality(MatchingAlternatives(input)) > 1) =>
        /\ result = matchInput(
               AloneMatcher(Alternatives(parsed.tokens)[Earliest(MatchingAlternatives(input))]),
               input)
        /\ result.kind = "match" =>
               DOMAIN result.params =
                   CaptureNames(Alternatives(parsed.tokens)[Earliest(MatchingAlternatives(input))])

\* {/:a}/*b on /a/a : with the group a = a, b = [a]; without it b = [a, a]
C14_Witness ==
    /\ Matched
    /\ template = <<"{", "/", ":", "a", "}", "/", "*", "b">>
    /\ input = <<"/", "a", "/", "a">>
    /\ MatchingAlternatives(input) = {1, 2}
    /\ result.kind = "match"
    /\ result.params[<<"b">>].v = << <<"a">> >>
    /\ result.params[<<"a">>].v = << <<"a">> >>

(***************************************************************************)
(* C15.  A compiled matcher is stateless across calls.                     *)
(***************************************************************************)
\* the call just made, on its own: the same template compiled afresh and
\* called once with the same input
CalledAlone == matchInput(match(shared[calls[Len(calls)]].template), input)

\* no step, a call or a compilation, changes anything of a matcher that
\* exists already
MatchersUnchanged == \A i \in 1..Len(shared) : shared'[i] = shared[i]

\* C15: a compiled matcher keeps no state between calls: whatever calls were
\* made before, on this matcher or on matchers of other templates, a call
\* returns what the same call returns on a matcher compiled afresh, and no
\* call or compilation changes the keys, the pattern (its lastIndex
\* included) or the decoders of any existing matcher.
C15_StatelessMatcher ==
    /\ [](calls # <<>> => result = CalledAlone)
    /\ [][MatchersUnchanged]_vars

\* two matchers of different templates were called in turn, the first of
\* them a second time after it had matched, and it matched again
C15_Witness ==
    /\ Len(shared) = 2
    /\ shared[1].template # shared[2].template
    /\ calls = <<1, 2, 1>>
    /\ result.kind = "match"
    /\ DOMAIN result.params # {}

(***************************************************************************)
(* C16.  A call of Server.on that throws registers nothing.                *)
(***************************************************************************)
\* what a call of Server.on must be given to succeed
Registrable(h) ==
    /\ h.method \in HTTP_METHODS
    /\ h.path # NotAString
    /\ h.path # <<>>
    /\ Head(h.path) = "/"
    /\ ~match(h.path).threw

\* a call of Server.on that threw left the handler list, its order included,
\* as it was
FailedOnAddsNothing == registered' = "threw" => handlers' = handlers

\* C16: a call of Server.on that fails (invalid method, path that is not a
\* string starting with "/", handler that is not a function, template that
\* does not compile) adds no handler and leaves the list of handlers and
\* their order unchanged, so that a later request, whose dispatch reads
\* nothing but that list, is dispatched as before; no handler in the list
\* has an invalid method, a path not starting with "/" or a template that
\* does not compile.
C16_FailedOnFrame ==
    /\ [][FailedOnAddsNothing]_vars
    /\ [](\A k \in 1..Len(handlers) : Registrable(handlers[k]))

\* a handler was registered, a later call of Server.on threw, and the request
\* that followed was given to the handler registered before
C16_Witness ==
    /\ registered = "threw"
    /\ Len(handlers) = 1
    /\ pc = "answered"
    /\ response.invoked = <<1>>

(***************************************************************************)
(* C17.  What the router answers when something throws.                    *)
(***************************************************************************)
\* the request's URL does not start with "/"
BadUrl == request.url = <<>> \/ Head(request.url) # "/"

\* the pathname handed to the matchers, the callback and the static responder
Pathname == urlPathname(decodeURIComponent(urlPathname(request.url)).value)

\* the callback of the matched handler was invoked and threw
CallbackThrew ==
    /\ response.invoked # <<>>
    /\ request.callback \in {"throw", "respondThrow", "fallbackThrow"}

\* the callback, or the static responder it ran, had sent the headers when it
\* threw
SentBeforeThrow == callback(NoResponse, request, Pathname).res.headersSent

\* the handler invoked is the last one whose matcher was called
NoOtherHandlerTried ==
    response.tried[Len(response.tried)].handler = response.invoked[Len(response.invoked)]

StaticRunByRouter == \E i \in 1..Len(response.static) : response.static[i] = "router"

\* no callback was invoked and something thrown ended the dispatch: the URL
\* constructor, the decoding of the pathname, a matcher or the router's own
\* run of the static responder
DispatchThrew ==
    /\ response.invoked = <<>>
    /\ \/ BadUrl
       \/ ~request.host
       \/ decodeURIComponent(urlPathname(request.url)).threw
       \/ /\ response.tried # <<>>
          /\ response.tried[Len(response.tried)].returned \notin {"match", "false"}
       \/ StaticRunByRouter /\ decodeURIComponent(Pathname).threw

\* The claim as it is stated: 500 unless the response is closed, the static
\* responder not run at all, 400 whenever the dispatch threw.
C17_AsStated ==
    pc = "answered" =>
        /\ CallbackThrew =>
               /\ ~request.responseClosed => response.status = <<500>>
               /\ NoOtherHandlerTried
               /\ response.static = <<>>
        /\ DispatchThrew => response.status = <<400>>
        /\ Len(response.status) <= 1

\* C17: when the callback of the matched handler throws, the request is
\* answered with status 500 unless the response is already closed or its
\* headers are already sent, no other handler is tried and the router does
\* not run the static-directory responder for that request; when the
\* request URL does not start with "/" or dispatch itself throws before a
\* handler is invoked, the request is answered with status 400 unless the
\* response is already closed; in no case are two status lines written for
\* one request.
C17_ErrorAnswers ==
    pc = "answered" =>
        /\ CallbackThrew =>
               /\ (~request.responseClosed /\ ~SentBeforeThrow) => response.status = <<500>>
               /\ NoOtherHandlerTried
               /\ ~StaticRunByRouter
        /\ (DispatchThrew /\ ~request.responseClosed) => response.status = <<400>>
        /\ Len(response.status) <= 1

\* two handlers of the request's method both match the pathname; the
\* callback of the first threw and the request was answered with 500
C17_Witness ==
    /\ pc = "answered"
    /\ request.callback = "throw"
    /\ Len(handlers) = 2
    /\ handlers[1].method = request.method
    /\ handlers[2].method = request.method
    /\ matchInput(handlers[2].pathMatcher, Pathname).kind = "match"
    /\ response.invoked = <<1>>
    /\ Len(response.tried) = 1
    /\ response.status = <<500>>

(***************************************************************************)
(* C18.  Compilation terminates: the measures of progress.                 *)
(***************************************************************************)
\* the tokens of the template, the END that closes them included
Tokens == lexer(template)

\* the scan position i the lexer is at when it has produced the token
TokenEnd(token) ==
    IF token.type \in {"PARAM", "WILDCARD", "END"} THEN token.index
    ELSE IF token.type = "ESCAPED" THEN token.index + 2
    ELSE token.index + 1

ScanAfter(k) == IF k = 0 THEN 0 ELSE TokenEnd(Tokens[k])

\* every token the lexer yields leaves the scan at least one codepoint further
\* than the token before it did, a token that carries the index of its first
\* codepoint starts where the last one ended, and the END is returned once
\* the scan has passed the last codepoint
LexerAdvances ==
    /\ \A k \in 1..Len(Tokens) :
           /\ Tokens[k].type \notin {"END", "THROW"} => ScanAfter(k) > ScanAfter(k - 1)
           /\ Tokens[k].type \notin {"END", "THROW", "PARAM", "WILDCARD"}
                  => Tokens[k].index = ScanAfter(k - 1)
           /\ Tokens[k].type = "END"
                  => TokenEnd(Tokens[k]) >= Len(template) /\ k = Len(Tokens)
           /\ Tokens[k].type = "THROW" => k = Len(Tokens)
    /\ Len(Tokens) <= Len(template) + 1

\* the passes of the while (true) loop of parse's consume that built the
\* tree: one per param, wildcard and group, and the pass that ends each call
RECURSIVE Iterations(_)
Iterations(tokens) ==
    IF tokens = <<>> THEN 1
    ELSE LET token == tokens[Len(tokens)] IN
         Iterations(SubSeq(tokens, 1, Len(tokens) - 1))
             + (IF token.type = "group" THEN 1 + Iterations(token.tokens)
                ELSE IF token.type = "text" THEN 0 ELSE 1)

\* the groups of a tree, the nested ones included
RECURSIVE GroupCount(_)
GroupCount(tokens) ==
    IF tokens = <<>> THEN 0
    ELSE LET token == tokens[Len(tokens)] IN
         GroupCount(SubSeq(tokens, 1, Len(tokens) - 1))
             + (IF token.type = "group" THEN 1 + GroupCount(token.tokens) ELSE 0)

\* the parser never consumes more tokens than the lexer has, and a parse
\* that succeeded consumed them all, at least one in each pass of its loops
ParserAdvances ==
    /\ parsed.p <= Len(Tokens)
    /\ (pc # "start" /\ ~parsed.threw) =>
           /\ parsed.p = Len(Tokens)
           /\ Iterations(parsed.tokens) <= parsed.p

\* C18: compile ends on every template, with a matcher or with an error of
\* the template's syntax: each token the tokenizer yields advances the scan
\* by at least one codepoint, the parser consumes at least one token in each
\* pass of its loop or stops, and the flattener yields at most
\* 2^(number of groups) sequences.
C18_CompileTerminates ==
    /\ LexerAdvances
    /\ ParserAdvances
    /\ pc # "start" =>
           /\ pc = (IF matcher.threw THEN "error" ELSE "compiled")
           /\ matcher.threw =>
                  matcher.error.kind \in {"Unterminated quote", "Missing parameter name",
                                          "Unexpected", "Missing text after"}
           /\ ~parsed.threw => Len(flat) <= 2 ^ GroupCount(parsed.tokens)

\* a template with two groups was compiled, and the flattener yielded all
\* the four sequences two groups allow
C18_Witness ==
    /\ pc = "compiled"
    /\ GroupCount(parsed.tokens) = 2
    /\ Len(flat) = 4
    /\ Len(Tokens) > Iterations(parsed.tokens)

====
